---- MODULE Spec2Model ----
(***************************************************************************)
(* Verification model of exchange-agentic-ai.                              *)
(*                                                                         *)
(*  Part I   OrganizationManager: TTL cache with prefix invalidation and   *)
(*           the cached reads / mutating writes that use it                *)
(*           (src/src/organizations.py).                                   *)
(*  Part II  ServiceManagementAgent: metric history, analyze(), act()      *)
(*           (src/src/ai/service_agent.py, src/src/ai/metrics.py).         *)
(*  Part III NodeManagementAgent: analyze(), act()                         *)
(*           (src/src/ai/node_agent.py).                                   *)
(*                                                                         *)
(* Strings whose prefix structure matters (cache keys, ids) are sequences  *)
(* of one-character strings, so that str.startswith is computed.           *)
(***************************************************************************)
EXTENDS Integers, Sequences, FiniteSets, TLC

VARIABLES
    now,          \* wall clock (datetime.now()), in whole ttl units
    cache_ttl,    \* OrganizationManager._cache_ttl
    cache,        \* OrganizationManager._cache : key -> CacheEntry
    hits,         \* points recorded in metric cache_hits_total
    misses,       \* points recorded in metric cache_misses_total
    lookups,      \* number of _get_from_cache calls made so far
    srv,          \* external API: version of the resource behind each key
    nwrites,      \* number of writes the external API has applied
    task,         \* per coroutine: where it is suspended and on what
    last,         \* what the most recent step did (observation record)
    metrics_history,  \* MetricsCollector._metrics_history of the service agent
    svc_result,       \* what ServiceManagementAgent.analyze() returned, if the last step was one
    svc_ev,           \* the last operation on the service agent
    svc_items,        \* the services that analyze() was answered with
    node_result,      \* what NodeManagementAgent.analyze() returned
    node_items,       \* the nodes that analyze() was answered with
    node_history,     \* NodeManagementAgent._history
    health_history,   \* NodeManagementAgent._health_history
    deployment_history,  \* ServiceManagementAgent._deployment_history
    svc_history,      \* ServiceManagementAgent._history
    act_obs,          \* the last act(): its argument, its result, its API calls
    reg_obs,          \* what the last register_node / delete_node call was given and returned
    cls_obs,          \* what the last classification of statistics was given and returned
    monitor_history,  \* HealthMonitor._health_history: the status of each recorded check
    monitor_obs,      \* the last call on the health monitor and what it returned
    request_counts,   \* ServiceMetricsCollector._request_counts
    error_counts,     \* ServiceMetricsCollector._error_counts
    rate_obs          \* the last call on the response-time bookkeeping and what it returned

orgVars == <<cache_ttl, cache, hits, misses, lookups, srv, nwrites, task, last>>
svcVars == <<metrics_history, svc_result, svc_ev, svc_items>>
nodeVars == <<node_result, node_items>>
extVars == <<monitor_history, monitor_obs, request_counts, error_counts, rate_obs>>
auxVars == <<reg_obs, cls_obs, extVars>>
actVars == <<node_history, health_history, deployment_history, svc_history, act_obs>>

----------------------------------------------------------------------------
(* Bounds *)

MaxTime == 2
MaxTTL == 1
MaxLookups == 2
MaxWrites == 1
MaxCount == 2
MaxEntities == 2
MaxLog == 2
MaxChecks == 4
MaxRequests == 3

----------------------------------------------------------------------------
(* Strings *)

IsPrefix(p, s) ==
    /\ Len(p) <= Len(s)
    /\ \A i \in 1..Len(p) : s[i] = p[i]

S_orgs == <<"o","r","g","s">>
S_org == <<"o","r","g">>
S_users == <<"u","s","e","r","s">>
S_user == <<"u","s","e","r">>
Colon == <<":">>

\* org ids and usernames handed to the manager; one org id is a prefix of
\* the other, so that keys of different organizations share prefixes
Org1 == <<"o","1">>
Org10 == <<"o","1","0">>
Orgs == {Org1, Org10}
Bob == <<"b","o","b">>
Users == {Bob}
ShortName == <<"b">>
NoStr == << >>

RECURSIVE Join(_)
Join(args) ==
    IF Len(args) = 0 THEN << >>
    ELSE IF Len(args) = 1 THEN args[1]
    ELSE args[1] \o Colon \o Join(Tail(args))

_get_cache_key(prefix, args) == prefix \o Colon \o Join(args)

OrgsKey == _get_cache_key(S_orgs, << >>)
OrgKey(o) == _get_cache_key(S_org, <<o>>)
UsersKey(o) == _get_cache_key(S_users, <<o>>)
UserKey(o, u) == _get_cache_key(S_user, <<o, u>>)

EntityKeys == {OrgKey(o) : o \in Orgs} \cup {UserKey(o, u) : o \in Orgs, u \in Users}
ListKeys == {OrgsKey} \cup {UsersKey(o) : o \in Orgs}
AllKeys == EntityKeys \cup ListKeys

----------------------------------------------------------------------------
(* Part I.a  CacheEntry and the three cache primitives *)

\* a fetched payload: the version of the resource it was read at, and its
\* Python truth value (an empty list is falsy, a model object is truthy)
NoData == [ver |-> -1, truthy |-> FALSE]       \* Python None

CacheEntry(data, ttl, t) == [data |-> data, created_at |-> t, ttl |-> ttl]

\* variant: the entry already counts as expired at created_at + ttl
is_expired_inclusive(e, t) == t >= e.created_at + e.ttl

is_expired(e, t) == t > e.created_at + e.ttl

Without(c, ks) == [k \in (DOMAIN c) \ ks |-> c[k]]

\* variant: an expired entry is deleted and None returned at once, before
\* the miss is recorded
_get_from_cache_early_return(c, key, t) ==
    IF key \in DOMAIN c
    THEN IF ~is_expired(c[key], t)
         THEN [cache |-> c, data |-> c[key].data, hit |-> 1, miss |-> 0]
         ELSE [cache |-> Without(c, {key}), data |-> NoData, hit |-> 0, miss |-> 0]
    ELSE [cache |-> c, data |-> NoData, hit |-> 0, miss |-> 1]

_get_from_cache(c, key, t) ==
    IF key \in DOMAIN c
    THEN IF ~is_expired(c[key], t)
         THEN [cache |-> c, data |-> c[key].data, hit |-> 1, miss |-> 0]
         ELSE [cache |-> Without(c, {key}), data |-> NoData, hit |-> 0, miss |-> 1]
    ELSE [cache |-> c, data |-> NoData, hit |-> 0, miss |-> 1]

_set_cache(c, key, data, ttl, t) ==
    [k \in (DOMAIN c) \cup {key} |->
        IF k = key THEN CacheEntry(data, ttl, t) ELSE c[k]]

\* variant: only the key equal to the prefix is removed
_invalidate_cache_exact(c, prefix) ==
    LET keys_to_remove == {k \in DOMAIN c : k = prefix}
    IN  Without(c, keys_to_remove)

_invalidate_cache(c, prefix) ==
    LET keys_to_remove == {k \in DOMAIN c : IsPrefix(prefix, k)}
    IN  Without(c, keys_to_remove)

----------------------------------------------------------------------------
(* Part I.b  validation (src/src/validation.py) and PermissionLevel *)

RoleLists ==
    { <<"user">>, <<"admin">>, <<"super_admin">>, <<"super_admin", "user">> }
Range(f) == {f[i] : i \in DOMAIN f}
DescKinds == {"none", "short", "long"}      \* absent, <= 1000 chars, > 1000 chars

validate_name(name) == Len(name) >= 3 /\ Len(name) <= 50
validate_roles(roles) ==
    /\ Len(roles) > 0
    /\ Range(roles) \subseteq {"user", "admin", "super_admin"}
    /\ ~("super_admin" \in Range(roles) /\ Len(roles) > 1)
validate_organization_description(d) == d # "long"
validate_user_data(u, roles) == validate_name(u) /\ validate_roles(roles)
validate_organization_data(name, d) ==
    validate_name(name) /\ validate_organization_description(d)

from_roles(roles) ==
    IF "super_admin" \in Range(roles) THEN 3
    ELSE IF "admin" \in Range(roles) THEN 2 ELSE 1
\* variant: one level below the required one is enough
can_perform_one_below(level, required) == level + 1 >= required

can_perform(level, required) == level >= required
validate_permission_level(required, roles) == can_perform(from_roles(roles), required)

----------------------------------------------------------------------------
(* Part I.c  OrganizationManager handlers.  Every handler is a coroutine:  *)
(* it runs atomically up to its await on the external API, the API answers *)
(* at some later point, and the coroutine resumes at some point after that.*)

Tasks == {"t1", "t2"}

ReadOps == {"get_organizations", "get_organization", "get_users", "get_user"}
OrgWriteOps == {"create_organization", "update_organization", "delete_organization"}
UserWriteOps == {"create_user", "update_user", "delete_user"}
WriteOps == OrgWriteOps \cup UserWriteOps
S_temp == <<"t","e","m","p">>
S_acme == <<"a","c","m","e">>

ReadCalls ==
    {[op |-> "get_organizations", org |-> NoStr, user |-> NoStr]}
    \cup {[op |-> "get_organization", org |-> o, user |-> NoStr] : o \in Orgs}
    \cup {[op |-> "get_users", org |-> o, user |-> NoStr] : o \in Orgs}
    \cup {[op |-> "get_user", org |-> o, user |-> u] : o \in Orgs, u \in Users}

\* for create_organization the field org carries the requested name;
\* the calls include ones that fail validation (a one-letter name, an
\* over-long description, super_admin combined with another role)
WriteCalls ==
    {[op |-> "create_organization", org |-> S_acme, user |-> NoStr, roles |-> << >>, desc |-> d] :
        d \in DescKinds}
    \cup {[op |-> "create_organization", org |-> ShortName, user |-> NoStr,
           roles |-> << >>, desc |-> "none"]}
    \cup {[op |-> "update_organization", org |-> o, user |-> NoStr, roles |-> << >>, desc |-> d] :
        o \in Orgs, d \in DescKinds \ {"none"}}
    \cup {[op |-> "delete_organization", org |-> o, user |-> NoStr, roles |-> << >>, desc |-> "none"] :
        o \in Orgs}
    \cup {[op |-> w, org |-> o, user |-> u, roles |-> r, desc |-> "none"] :
        w \in {"create_user", "update_user"}, o \in Orgs, u \in Users, r \in RoleLists}
    \cup {[op |-> w, org |-> Org1, user |-> ShortName, roles |-> <<"user">>, desc |-> "none"] :
        w \in {"create_user", "update_user"}}
    \cup {[op |-> "delete_user", org |-> o, user |-> u, roles |-> << >>, desc |-> "none"] :
        o \in Orgs, u \in Users}

ReadKey(c) ==
    CASE c.op = "get_organizations" -> _get_cache_key(S_orgs, << >>)
      [] c.op = "get_organization" -> _get_cache_key(S_org, <<c.org>>)
      [] c.op = "get_users" -> _get_cache_key(S_users, <<c.org>>)
      [] c.op = "get_user" -> _get_cache_key(S_user, <<c.org, c.user>>)

\* the validation each write runs before its first await
Validates(c) ==
    CASE c.op = "create_organization" -> validate_organization_data(c.org, c.desc)
      [] c.op = "update_organization" -> validate_organization_data(S_temp, c.desc)
      [] c.op = "delete_organization" -> TRUE
      [] c.op \in {"create_user", "update_user"} -> validate_user_data(c.user, c.roles)
      [] c.op = "delete_user" -> TRUE

\* variant: update and delete invalidate the list key only
InvalidatedPrefixes_list_only(op, o, u) ==
    CASE op \in OrgWriteOps -> <<S_orgs>>
      [] op \in UserWriteOps -> <<S_users \o Colon \o o>>

\* the prefixes a successful write hands to _invalidate_cache, in order
InvalidatedPrefixes(op, o, u) ==
    CASE op = "create_organization" -> <<S_orgs>>
      [] op \in {"update_organization", "delete_organization"} ->
            <<S_orgs, S_org \o Colon \o o>>
      [] op = "create_user" -> <<S_users \o Colon \o o>>
      [] op \in {"update_user", "delete_user"} ->
            <<S_users \o Colon \o o, S_user \o Colon \o o \o Colon \o u>>

RECURSIVE InvalidateAll(_, _)
InvalidateAll(c, ps) ==
    IF Len(ps) = 0 THEN c
    ELSE InvalidateAll(_invalidate_cache(c, Head(ps)), Tail(ps))

\* the resources whose server-side state a write changes
Touched(op, o, u) ==
    CASE op = "create_organization" -> {OrgsKey}
      [] op \in {"update_organization", "delete_organization"} -> {OrgsKey, OrgKey(o)}
      [] op = "create_user" -> {UsersKey(o)}
      [] op \in {"update_user", "delete_user"} -> {UsersKey(o), UserKey(o, u)}

Idle == [pc |-> "idle", op |-> "none", org |-> NoStr, user |-> NoStr,
         key |-> NoStr, resp |-> NoData, ok |-> FALSE]

\* observation of a step: the handler and its arguments, what the cache
\* lookup found (had, expired) and returned (cached), what the handler
\* returned (ret), the keys the step removed from the cache, the roles a
\* write was called with, and the answer to GET /users/me
Obs(ev, op, o, u, key, cached, ret, had, expired) ==
    [ev |-> ev, op |-> op, org |-> o, user |-> u, key |-> key,
     cached |-> cached, ret |-> ret, had |-> had, expired |-> expired,
     removed |-> {}, roles |-> << >>, me |-> << >>]
Ev(ev, tk) == Obs(ev, tk.op, tk.org, tk.user, tk.key, NoData, NoData, FALSE, FALSE)

OrgInit ==
    /\ cache_ttl \in 1..MaxTTL
    /\ cache = [k \in {} |-> NoData]
    /\ hits = 0 /\ misses = 0 /\ lookups = 0
    /\ srv = [k \in AllKeys |-> 0]
    /\ nwrites = 0
    /\ task = [t \in Tasks |-> Idle]
    /\ last = Ev("init", Idle)

\* datetime.now() advances
Tick ==
    /\ now < MaxTime
    /\ now' = now + 1

OrgTick ==
    /\ Tick
    /\ last' = Ev("tick", Idle)
    /\ UNCHANGED <<cache_ttl, cache, hits, misses, lookups, srv, nwrites, task>>
    /\ UNCHANGED <<svcVars, nodeVars, actVars, auxVars>>

\* get_organizations / get_organization / get_users / get_user, up to the
\* await: the cache lookup, and the return of a truthy cached payload
ReadStart(t, c) ==
    /\ task[t].pc = "idle"
    /\ lookups < MaxLookups
    /\ LET cache_key == ReadKey(c)
           r == _get_from_cache(cache, cache_key, now)
           had == cache_key \in DOMAIN cache
           expired == had /\ is_expired(cache[cache_key], now)
       IN  /\ cache' = r.cache
           /\ hits' = hits + r.hit
           /\ misses' = misses + r.miss
           /\ lookups' = lookups + 1
           /\ IF r.data.truthy
              THEN /\ task' = task
                   /\ last' = Obs("read_cached", c.op, c.org, c.user, cache_key,
                                  r.data, r.data, had, expired)
              ELSE /\ task' = [task EXCEPT ![t] =
                            [pc |-> "fetch", op |-> c.op, org |-> c.org, user |-> c.user,
                             key |-> cache_key, resp |-> NoData, ok |-> FALSE]]
                   /\ last' = Obs("read_fetch", c.op, c.org, c.user, cache_key,
                                  r.data, NoData, had, expired)
    /\ UNCHANGED <<now, cache_ttl, srv, nwrites>>
    /\ UNCHANGED <<svcVars, nodeVars, actVars, auxVars>>

\* the external API answers the GET: the resource as it is now, or an error
\* (a list may be empty, which Python treats as false)
ReadRespond(t, ok, truthy) ==
    /\ task[t].pc = "fetch"
    /\ task[t].key \in EntityKeys => truthy
    /\ ~ok => truthy
    /\ task' = [task EXCEPT ![t].pc = "fetched", ![t].ok = ok,
                            ![t].resp = IF ok THEN [ver |-> srv[task[t].key], truthy |-> truthy]
                                        ELSE NoData]
    /\ last' = Ev("respond", task[t])
    /\ UNCHANGED <<now, cache_ttl, cache, hits, misses, lookups, srv, nwrites>>
    /\ UNCHANGED <<svcVars, nodeVars, actVars, auxVars>>

\* the read resumes: _set_cache and return, or raise ExchangeAPIError
ReadFinish(t) ==
    /\ task[t].pc = "fetched"
    /\ IF task[t].ok
       THEN /\ cache' = _set_cache(cache, task[t].key, task[t].resp, cache_ttl, now)
            /\ last' = Obs("read_ok", task[t].op, task[t].org, task[t].user, task[t].key,
                           NoData, task[t].resp, FALSE, FALSE)
       ELSE /\ cache' = cache
            /\ last' = Ev("read_fail", task[t])
    /\ task' = [task EXCEPT ![t] = Idle]
    /\ UNCHANGED <<now, cache_ttl, hits, misses, lookups, srv, nwrites>>
    /\ UNCHANGED <<svcVars, nodeVars, actVars, auxVars>>

\* a mutating write up to its first await: validation, then either the
\* GET of the current user (create_user with elevated roles) or the request
WriteStart(t, c) ==
    /\ task[t].pc = "idle"
    /\ nwrites < MaxWrites
    /\ LET tk == [pc |-> IF c.op = "create_user" /\
                            ("admin" \in Range(c.roles) \/ "super_admin" \in Range(c.roles))
                         THEN "me" ELSE "send",
                  op |-> c.op, org |-> c.org, user |-> c.user,
                  key |-> NoStr, resp |-> NoData, ok |-> FALSE]
       IN  IF Validates(c)
           THEN /\ task' = [task EXCEPT ![t] = tk]
                /\ last' = [Ev("write_start", tk) EXCEPT !.roles = c.roles]
           ELSE /\ task' = task
                /\ last' = [Ev("write_invalid", tk) EXCEPT !.roles = c.roles]
    /\ UNCHANGED <<now, cache_ttl, cache, hits, misses, lookups, srv, nwrites>>
    /\ UNCHANGED <<svcVars, nodeVars, actVars, auxVars>>

\* create_user: the answer to GET /users/me and the permission check on it
\* (me is "404", "error", or the roles of the current user)
MeAnswers == {<<"404">>, <<"error">>} \cup {r \in RoleLists : validate_roles(r)}
MeRespond(t, me) ==
    /\ task[t].pc = "me"
    /\ IF me \notin {<<"404">>, <<"error">>} /\ validate_permission_level(3, me)
       THEN /\ task' = [task EXCEPT ![t].pc = "send"]
            /\ last' = [Ev("me_ok", task[t]) EXCEPT !.me = me]
       ELSE /\ task' = [task EXCEPT ![t] = Idle]
            /\ last' = [Ev("write_denied", task[t]) EXCEPT !.me = me]
    /\ UNCHANGED <<now, cache_ttl, cache, hits, misses, lookups, srv, nwrites>>
    /\ UNCHANGED <<svcVars, nodeVars, actVars, auxVars>>

\* the external API applies the write and answers, or refuses / fails
WriteApply(t, ok) ==
    /\ task[t].pc = "send"
    /\ ok => nwrites < MaxWrites
    /\ task' = [task EXCEPT ![t].pc = "sent", ![t].ok = ok]
    /\ IF ok
       THEN /\ srv' = [k \in AllKeys |->
                        IF k \in Touched(task[t].op, task[t].org, task[t].user)
                        THEN srv[k] + 1 ELSE srv[k]]
            /\ nwrites' = nwrites + 1
       ELSE UNCHANGED <<srv, nwrites>>
    /\ last' = Ev("applied", task[t])
    /\ UNCHANGED <<now, cache_ttl, cache, hits, misses, lookups>>
    /\ UNCHANGED <<svcVars, nodeVars, actVars, auxVars>>

\* variant: the invalidation runs before the outcome of the request is known
WriteFinish_invalidate_first(t) ==
    /\ task[t].pc = "sent"
    /\ cache' = InvalidateAll(cache,
                    InvalidatedPrefixes(task[t].op, task[t].org, task[t].user))
    /\ IF task[t].ok
       THEN last' = [Ev("write_ok", task[t]) EXCEPT
                            !.removed = (DOMAIN cache) \ (DOMAIN cache')]
       ELSE last' = Ev("write_fail", task[t])
    /\ task' = [task EXCEPT ![t] = Idle]
    /\ UNCHANGED <<now, cache_ttl, hits, misses, lookups, srv, nwrites>>
    /\ UNCHANGED <<svcVars, nodeVars, actVars, auxVars>>

\* the write resumes: invalidate and return, or raise
WriteFinish(t) ==
    /\ task[t].pc = "sent"
    /\ IF task[t].ok
       THEN /\ cache' = InvalidateAll(cache,
                            InvalidatedPrefixes(task[t].op, task[t].org, task[t].user))
            /\ last' = [Ev("write_ok", task[t]) EXCEPT
                            !.removed = (DOMAIN cache) \ (DOMAIN cache')]
       ELSE /\ cache' = cache
            /\ last' = Ev("write_fail", task[t])
    /\ task' = [task EXCEPT ![t] = Idle]
    /\ UNCHANGED <<now, cache_ttl, hits, misses, lookups, srv, nwrites>>
    /\ UNCHANGED <<svcVars, nodeVars, actVars, auxVars>>

\* one caller at a time: every await is still a separate step
Callers == {"t1"}

OrgNext ==
    \/ OrgTick
    \/ \E t \in Callers, c \in ReadCalls : ReadStart(t, c)
    \/ \E t \in Callers, ok \in BOOLEAN, truthy \in BOOLEAN : ReadRespond(t, ok, truthy)
    \/ \E t \in Callers : ReadFinish(t)
    \/ \E t \in Callers, c \in WriteCalls : WriteStart(t, c)
    \/ \E t \in Callers, me \in MeAnswers : MeRespond(t, me)
    \/ \E t \in Callers, ok \in BOOLEAN : WriteApply(t, ok)
    \/ \E t \in Callers : WriteFinish(t)

----------------------------------------------------------------------------
(* Part II.a  MetricsCollector (src/src/ai/metrics.py): one history list,  *)
(* pruned by age on every add.  The clock ticks in half hours here.        *)

AnalysisWindow == 2          \* timedelta(hours=1)

Services == {"s1", "s2", "s3"}
CpuVals == {10, 50}

\* datetime.isoformat() / datetime.fromisoformat()
isoformat(t) == <<"iso", t>>
fromisoformat(str) == str[2]

InWindow(m, t) == fromisoformat(m.timestamp) > t - AnalysisWindow

\* variant: every sweep also drops the oldest snapshot it kept, when that
\* one was taken before the current instant
_cleanup_old_metrics_drop_head(h, t) ==
    IF /\ Len(SelectSeq(h, LAMBDA m : InWindow(m, t))) >= 1
       /\ fromisoformat(Head(SelectSeq(h, LAMBDA m : InWindow(m, t))).timestamp) < t
    THEN Tail(SelectSeq(h, LAMBDA m : InWindow(m, t)))
    ELSE SelectSeq(h, LAMBDA m : InWindow(m, t))

_cleanup_old_metrics(h, t) == SelectSeq(h, LAMBDA m : InWindow(m, t))

add_metrics(h, metrics, t) ==
    _cleanup_old_metrics(Append(h, [timestamp |-> isoformat(t), data |-> metrics]), t)

get_recent_metrics(h, t) == SelectSeq(h, LAMBDA m : InWindow(m, t))

\* the numeric metric that varies in the model is cpu_usage; memory_usage,
\* error_rate and response_time keep their default 0.0, for which
\* _generate_alerts raises nothing
_extract_numeric_values(ms) == [i \in 1..Len(ms) |-> ms[i].data.cpu_usage]

RECURSIVE SumSeq(_)
SumSeq(q) == IF Len(q) = 0 THEN 0 ELSE Head(q) + SumSeq(Tail(q))
MaxOf(q) == CHOOSE x \in Range(q) : \A y \in Range(q) : y <= x
MinOf(q) == CHOOSE x \in Range(q) : \A y \in Range(q) : x <= y

\* mean = sum / n and std_dev are kept as the integers they are computed
\* from: sum, n and sumsq (the sum of squares)
_calculate_statistics(values) ==
    [n |-> Len(values), sum |-> SumSeq(values),
     sumsq |-> SumSeq([i \in 1..Len(values) |-> values[i] * values[i]]),
     min |-> MinOf(values), max |-> MaxOf(values)]

Abs(x) == IF x < 0 THEN -x ELSE x

\* slope of the least-squares line of values against 0..n-1, as the
\* fraction num / den with den > 0
SlopeNum(values) ==
    LET n == Len(values)
    IN  n * SumSeq([i \in 1..n |-> (i - 1) * values[i]])
          - SumSeq([i \in 1..n |-> i - 1]) * SumSeq(values)
SlopeDen(values) ==
    LET n == Len(values)
    IN  n * SumSeq([i \in 1..n |-> (i - 1) * (i - 1)])
          - SumSeq([i \in 1..n |-> i - 1]) * SumSeq([i \in 1..n |-> i - 1])

_analyze_trends(values) ==
    IF Len(values) < 2 THEN "insufficient_data"
    ELSE IF 100 * Abs(SlopeNum(values)) < SlopeDen(values) THEN "stable"
    ELSE IF SlopeNum(values) > 0 THEN "increasing"
    ELSE "decreasing"

\* std_dev > mean * 0.5, with std_dev the sample deviation (0 for n < 2),
\* and max > mean * 2; all values are non-negative
_generate_alerts(st) ==
    (IF st.n > 1 /\ 4 * st.n * (st.n * st.sumsq - st.sum * st.sum)
                       > (st.n - 1) * st.sum * st.sum
     THEN <<[metric |-> "cpu_usage", type |-> "high_variance"]>> ELSE << >>)
    \o
    (IF st.n * st.max > 2 * st.sum
     THEN <<[metric |-> "cpu_usage", type |-> "extreme_value"]>> ELSE << >>)

_determine_status(st, trend) == "normal"
_determine_health(st, trend) == "healthy"

NoStats == [n |-> 0, sum |-> 0, sumsq |-> 0, min |-> 0, max |-> 0]

analyze_metrics(ms) ==
    IF Len(ms) = 0
    THEN [status |-> "unknown", health |-> "unknown", trend |-> "none",
          alerts |-> << >>, has_statistics |-> FALSE, statistics |-> NoStats]
    ELSE LET values == _extract_numeric_values(ms)
             st == _calculate_statistics(values)
             trend == _analyze_trends(values)
         IN  [status |-> _determine_status(st, trend),
              health |-> _determine_health(st, trend),
              trend |-> trend,
              alerts |-> _generate_alerts(st),
              has_statistics |-> TRUE, statistics |-> st]

----------------------------------------------------------------------------
(* Part II.b  ServiceManagementAgent.analyze().  It awaits nothing, so one *)
(* call is one step.                                                       *)

\* service_data as list_services returns it: a dict giving
\* deployment.resources.cpu, or a payload that is not a dict (ok = FALSE)
ServiceData == [ok : BOOLEAN, cpu : CpuVals]

\* the 'services' dict of the response, in iteration order: distinct ids
ServiceLists ==
    {q \in UNION {[1..n -> [id : Services, data : ServiceData]] : n \in 0..MaxEntities} :
        /\ \A i, j \in 1..Len(q) : i # j => q[i].id # q[j].id
        /\ \A i \in 1..Len(q) : ~q[i].data.ok => q[i].data.cpu = 10}

\* in-membership and .get on a payload that is not a dict raise
CollectRaises(service_data) == ~service_data.ok
_collect_service_metrics(service_id, service_data) ==
    [service_id |-> service_id, cpu_usage |-> service_data.cpu]

Recommend(service_id, ma) ==
    IF ma.status = "failed"
    THEN <<[service_id |-> service_id, action |-> "restart"]>>
    ELSE IF ma.health = "critical"
    THEN <<[service_id |-> service_id, action |-> "update"]>>
    ELSE IF ma.health = "warning" /\ ma.trend = "increasing"
    THEN <<[service_id |-> service_id, action |-> "scale"]>>
    ELSE << >>

EmptyAnalysis ==
    [raised |-> FALSE, services |-> [x \in {} |-> 0],
     recommendations |-> << >>, alerts |-> << >>]
Raised == [EmptyAnalysis EXCEPT !.raised = TRUE]

\* the loop over the listed services: the history and the analysis after
\* the remaining items; an exception leaves the loop and the call
RECURSIVE AnalyzeServices(_, _, _, _)
AnalyzeServices(h, items, analysis, t) ==
    IF Len(items) = 0 THEN [hist |-> h, result |-> analysis]
    ELSE
      LET service_id == Head(items).id
          service_data == Head(items).data
      IN  IF CollectRaises(service_data) THEN [hist |-> h, result |-> Raised]
          ELSE
            LET metrics == _collect_service_metrics(service_id, service_data)
                h2 == add_metrics(h, metrics, t)
                recent_metrics == get_recent_metrics(h2, t)
                ma == analyze_metrics(recent_metrics)
                entry == [status |-> ma.status, health |-> ma.health,
                          metrics |-> ma.statistics, trend |-> ma.trend,
                          window |-> recent_metrics]
            IN  IF ~ma.has_statistics THEN [hist |-> h2, result |-> Raised]
                ELSE AnalyzeServices(h2, Tail(items),
                        [analysis EXCEPT
                            !.services = [x \in (DOMAIN @) \cup {service_id} |->
                                            IF x = service_id THEN entry ELSE @[x]],
                            !.alerts = @ \o ma.alerts,
                            !.recommendations = @ \o Recommend(service_id, ma)],
                        t)

SvcInit ==
    /\ metrics_history = << >>
    /\ svc_result = EmptyAnalysis
    /\ svc_ev = "init"
    /\ svc_items = << >>

\* the model stops appending one past the count the history should hold
HistoryCap == MaxCount + 1

SvcTick ==
    /\ Tick
    /\ svc_ev' = "tick"
    /\ svc_result' = EmptyAnalysis
    /\ svc_items' = << >>
    /\ UNCHANGED <<orgVars, metrics_history, nodeVars, actVars, auxVars>>

\* MetricsCollector.add_metrics called on its own
AddMetrics(service_id, cpu) ==
    /\ Len(metrics_history) < HistoryCap
    /\ metrics_history' = add_metrics(metrics_history,
                                      [service_id |-> service_id, cpu_usage |-> cpu], now)
    /\ svc_ev' = "add_metrics"
    /\ svc_result' = EmptyAnalysis
    /\ svc_items' = << >>
    /\ UNCHANGED <<now, orgVars, nodeVars, actVars, auxVars>>

\* MetricsCollector._cleanup_old_metrics called on its own
CleanupOldMetrics ==
    /\ metrics_history' = _cleanup_old_metrics(metrics_history, now)
    /\ svc_ev' = IF svc_ev \in {"cleanup", "cleanup_again"} THEN "cleanup_again"
                 ELSE "cleanup"
    /\ svc_result' = EmptyAnalysis
    /\ svc_items' = << >>
    /\ UNCHANGED <<now, orgVars, nodeVars, actVars, auxVars>>

\* ServiceManagementAgent.analyze(): list_services raises, or answers items
ServiceAnalyze(list_ok, items) ==
    /\ Len(metrics_history) + Len(items) <= HistoryCap
    /\ ~list_ok => items = << >>
    /\ LET r == IF list_ok
                THEN AnalyzeServices(metrics_history, items, EmptyAnalysis, now)
                ELSE [hist |-> metrics_history, result |-> Raised]
       IN  /\ metrics_history' = r.hist
           /\ svc_result' = r.result
    /\ svc_ev' = "analyze"
    /\ svc_items' = items
    /\ UNCHANGED <<now, orgVars, nodeVars, actVars, auxVars>>

SvcNext ==
    \/ SvcTick
    \/ \E sid \in Services, cpu \in CpuVals : AddMetrics(sid, cpu)
    \/ CleanupOldMetrics
    \/ \E list_ok \in BOOLEAN, items \in ServiceLists : ServiceAnalyze(list_ok, items)

----------------------------------------------------------------------------
(* Part III.a  NodeManagementAgent.analyze().  The collector's two calls   *)
(* are answered per node by an outcome: one of them raises, or             *)
(* analyze_metrics returns a dict.                                         *)

\* ids in the order list_nodes answers them
Nodes == <<"n1", "n2", "n3">>

AlertOf(health) ==
    IF health \in {"warning", "critical"}
    THEN <<[metric |-> "cpu_usage", type |-> health]>> ELSE << >>

\* keys: "all" when the dict has the keys analyze() subscripts, else the
\* name of the missing one
NodeOutcomes ==
    {[kind |-> "ok", status |-> x[1], health |-> x[2], disk_trend |-> x[3],
      alerts |-> AlertOf(x[2]), keys |-> "all"] :
        x \in {<<"online", "healthy", "stable">>,
               <<"offline", "healthy", "stable">>,
               <<"offline", "critical", "increasing">>,
               <<"online", "critical", "stable">>,
               <<"degraded", "warning", "increasing">>,
               <<"degraded", "warning", "stable">>}}
    \cup {[kind |-> k, status |-> "unknown", health |-> "unknown", disk_trend |-> "none",
           alerts |-> << >>, keys |-> "all"] : k \in {"collect_raises", "analyze_raises"}}
    \cup {[kind |-> "ok", status |-> "unknown", health |-> "unknown", disk_trend |-> "none",
           alerts |-> <<[type |-> "error"]>>, keys |-> k] : k \in {"all", "metrics", "alerts"}}

NodeLists ==
    {q \in UNION {[1..n -> [id : {Nodes[i] : i \in 1..Len(Nodes)}, outcome : NodeOutcomes]] :
                     n \in 0..MaxEntities} :
        \A i \in 1..Len(q) : q[i].id = Nodes[i]}

\* variant: independent ifs instead of the if/elif chain
NodeRecommend_additive(node_id, ma) ==
    (IF ma.status = "offline"
     THEN <<[node_id |-> node_id, action |-> "check_health"]>> ELSE << >>)
    \o (IF ma.health = "critical"
        THEN <<[node_id |-> node_id, action |-> "update"]>> ELSE << >>)
    \o (IF ma.health = "warning" /\ ma.disk_trend = "increasing"
        THEN <<[node_id |-> node_id, action |-> "cleanup"]>> ELSE << >>)

NodeRecommend(node_id, ma) ==
    IF ma.status = "offline"
    THEN <<[node_id |-> node_id, action |-> "check_health"]>>
    ELSE IF ma.health = "critical"
    THEN <<[node_id |-> node_id, action |-> "update"]>>
    ELSE IF ma.health = "warning" /\ ma.disk_trend = "increasing"
    THEN <<[node_id |-> node_id, action |-> "cleanup"]>>
    ELSE << >>

ErrorAlert(node_id) == [node_id |-> node_id, type |-> "error"]

EmptyNodeAnalysis ==
    [raised |-> FALSE, nodes |-> [x \in {} |-> 0],
     recommendations |-> << >>, alerts |-> << >>]
\* what the outer except returns
FailedNodeAnalysis == [EmptyNodeAnalysis EXCEPT !.alerts = <<[type |-> "error"]>>]

WithNode(analysis, node_id, ma) ==
    [analysis EXCEPT
        !.nodes = [x \in (DOMAIN @) \cup {node_id} |->
                     IF x = node_id
                     THEN [status |-> ma.status, health |-> ma.health,
                           trend |-> ma.disk_trend]
                     ELSE @[x]]]

\* variant: no try/except inside the loop, the first failing node ends it
RECURSIVE AnalyzeNodes_abort(_, _)
AnalyzeNodes_abort(items, analysis) ==
    IF Len(items) = 0 THEN analysis
    ELSE
      LET node_id == Head(items).id
          ma == Head(items).outcome
      IN  IF ma.kind # "ok" \/ ma.keys # "all"
          THEN [analysis EXCEPT !.alerts = @ \o <<ErrorAlert(node_id)>>]
          ELSE AnalyzeNodes_abort(Tail(items),
                  [WithNode(analysis, node_id, ma) EXCEPT
                      !.alerts = @ \o ma.alerts,
                      !.recommendations = @ \o NodeRecommend(node_id, ma)])

\* the loop over the listed nodes, each in its own try/except
RECURSIVE AnalyzeNodes(_, _)
AnalyzeNodes(items, analysis) ==
    IF Len(items) = 0 THEN analysis
    ELSE
      LET node_id == Head(items).id
          ma == Head(items).outcome
          next ==
            IF ma.kind # "ok" \/ ma.keys = "metrics"
            THEN \* raised before the node's entry is stored
                 [analysis EXCEPT !.alerts = @ \o <<ErrorAlert(node_id)>>]
            ELSE IF ma.keys = "alerts"
            THEN \* raised after the node's entry is stored
                 [WithNode(analysis, node_id, ma) EXCEPT
                      !.alerts = @ \o <<ErrorAlert(node_id)>>]
            ELSE [WithNode(analysis, node_id, ma) EXCEPT
                      !.alerts = @ \o ma.alerts,
                      !.recommendations = @ \o NodeRecommend(node_id, ma)]
      IN  AnalyzeNodes(Tail(items), next)

NodeInit ==
    /\ node_result = EmptyNodeAnalysis
    /\ node_items = [list_ok |-> TRUE, items |-> << >>, calls |-> 0]

\* NodeManagementAgent.analyze(): list_nodes raises, or answers items
NodeAnalyze(list_ok, items) ==
    /\ ~list_ok => items = << >>
    /\ node_result' = IF list_ok THEN AnalyzeNodes(items, EmptyNodeAnalysis)
                      ELSE FailedNodeAnalysis
    /\ node_items' = [list_ok |-> list_ok, items |-> items, calls |-> 1]
    /\ UNCHANGED <<now, orgVars, svcVars, actVars, auxVars>>

NodeNext ==
    \E list_ok \in BOOLEAN, items \in NodeLists : NodeAnalyze(list_ok, items)

----------------------------------------------------------------------------
(* Part III.b  act() of both agents.  An action dict is modelled by        *)
(* whether it carries the entity id and by its 'action' value ("absent"    *)
(* when the key is missing).  Every client call is answered by an outcome  *)
(* (returns or raises); calls lists the client calls act() issued.         *)

NodeKinds == {"check_health", "update", "cleanup"}
ServiceKinds == {"update", "scale", "restart"}
NodeActions == [has_id : BOOLEAN, kind : NodeKinds \cup {"bogus", "absent"}]
ServiceActions == [has_id : BOOLEAN, kind : ServiceKinds \cup {"bogus", "absent"},
                   scale_factor : {1, 2}]

NoResources == << >>
\* get_service answers: a deployment with or without 'resources' (cpu, memory)
ServicePayloads == {NoResources} \cup {<<cpu, 512>> : cpu \in {1, 2}}

_update_node(history, node_id, update_data, update_ok) ==
    [ret |-> update_ok, calls |-> <<"update_node">>,
     history |-> IF update_ok
                 THEN Append(history, [node_id |-> node_id, action |-> "update",
                                       data |-> update_data])
                 ELSE history]

_check_node_health(hh, node_id, get_ok) ==
    [ret |-> get_ok, calls |-> <<"get_node">>,
     health_history |-> IF get_ok THEN Append(hh, [node_id |-> node_id]) ELSE hh]

_cleanup_node(history, node_id, get_ok, update_ok) ==
    IF ~get_ok
    THEN [ret |-> FALSE, calls |-> <<"get_node">>, history |-> history]
    ELSE LET u == _update_node(history, node_id, "cleanup", update_ok)
         IN  [u EXCEPT !.calls = <<"get_node">> \o @]

\* variant: the final else branch treats any other kind as an update
NodeDispatch_default_update(kind) ==
    IF kind = "check_health" THEN "check_health"
    ELSE IF kind = "cleanup" THEN "cleanup"
    ELSE "update"

\* the if/elif chain of NodeManagementAgent.act
NodeDispatch(kind) ==
    IF kind = "check_health" THEN "check_health"
    ELSE IF kind = "update" THEN "update"
    ELSE IF kind = "cleanup" THEN "cleanup"
    ELSE "unknown"

\* variant: only cpu is scaled
_calculate_scaled_resources_cpu_only(resources, scale_factor) ==
    IF resources = NoResources THEN resources
    ELSE <<resources[1] * scale_factor, resources[2]>>

_calculate_scaled_resources(resources, scale_factor) ==
    IF resources = NoResources THEN resources
    ELSE <<resources[1] * scale_factor, resources[2] * scale_factor>>

ErrorEntry(message) == [type |-> "error", message |-> message]

_update_service(dh, eh, service_id, update_data, update_ok) ==
    [ret |-> update_ok, calls |-> <<"update_service">>, sent |-> <<update_data>>,
     deployment_history |->
        IF update_ok
        THEN Append(dh, [service_id |-> service_id, action |-> "update",
                         data |-> update_data])
        ELSE dh,
     history |-> IF update_ok THEN eh
                 ELSE Append(eh, ErrorEntry("Service update failed"))]

_scale_service(dh, eh, service_id, scale_factor, get_ok, payload, update_ok) ==
    IF ~get_ok
    THEN [ret |-> FALSE, calls |-> <<"get_service">>, sent |-> << >>,
          deployment_history |-> dh,
          history |-> Append(eh, ErrorEntry("Service scaling failed"))]
    ELSE LET u == _update_service(dh, eh, service_id,
                     _calculate_scaled_resources(payload, scale_factor), update_ok)
         IN  [u EXCEPT !.calls = <<"get_service">> \o @]

_restart_service(dh, eh, service_id, get_ok, payload, update_ok) ==
    IF ~get_ok
    THEN [ret |-> FALSE, calls |-> <<"get_service">>, sent |-> << >>,
          deployment_history |-> dh,
          history |-> Append(eh, ErrorEntry("Service restart failed"))]
    ELSE LET u == _update_service(dh, eh, service_id, payload, update_ok)
         IN  [u EXCEPT !.calls = <<"get_service">> \o @]

NoObs == [agent |-> "none", has_id |-> TRUE, kind |-> "none", ret |-> TRUE,
          raised |-> FALSE, calls |-> << >>]

LogLen == Len(node_history) + Len(health_history)
          + Len(deployment_history) + Len(svc_history)

ActInit ==
    /\ node_history = << >>
    /\ health_history = << >>
    /\ deployment_history = << >>
    /\ svc_history = << >>
    /\ act_obs = NoObs

\* NodeManagementAgent.act(action)
NodeAct(action, get_ok, update_ok) ==
    /\ LogLen < MaxLog
    /\ LET \* action['node_id'] or action['action'] raises KeyError
           key_error == ~action.has_id \/ action.kind = "absent"
           branch == IF key_error THEN "except" ELSE NodeDispatch(action.kind)
           h == _check_node_health(health_history, "n1", get_ok)
           u == _update_node(node_history, "n1", "given", update_ok)
           c == _cleanup_node(node_history, "n1", get_ok, update_ok)
           ret == CASE branch = "check_health" -> h.ret
                    [] branch = "update" -> u.ret
                    [] branch = "cleanup" -> c.ret
                    [] OTHER -> FALSE
           calls == CASE branch = "check_health" -> h.calls
                      [] branch = "update" -> u.calls
                      [] branch = "cleanup" -> c.calls
                      [] OTHER -> << >>
       IN  /\ health_history' = IF branch = "check_health" THEN h.health_history
                                ELSE health_history
           /\ node_history' = CASE branch = "update" -> u.history
                                [] branch = "cleanup" -> c.history
                                [] OTHER -> node_history
           /\ act_obs' = [agent |-> "node", has_id |-> action.has_id,
                          kind |-> action.kind, ret |-> ret, raised |-> FALSE,
                          calls |-> calls]
    /\ UNCHANGED <<deployment_history, svc_history>>
    /\ UNCHANGED <<now, orgVars, svcVars, nodeVars, auxVars>>

\* ServiceManagementAgent.act(action)
ServiceAct(action, get_ok, payload, update_ok) ==
    /\ LogLen < MaxLog
    /\ ~get_ok => payload = NoResources
    /\ LET key_error == ~action.has_id \/ action.kind = "absent"
           \* KeyError, or the ValueError raised for an unknown kind
           branch == IF key_error \/ action.kind \notin ServiceKinds
                     THEN "except" ELSE action.kind
           none == [ret |-> FALSE, calls |-> << >>, sent |-> << >>,
                    deployment_history |-> deployment_history,
                    history |-> Append(svc_history, ErrorEntry("Action failed"))]
           r == CASE branch = "update" ->
                       _update_service(deployment_history, svc_history, "s1",
                                       "given", update_ok)
                  [] branch = "scale" ->
                       _scale_service(deployment_history, svc_history, "s1",
                                      action.scale_factor, get_ok, payload, update_ok)
                  [] branch = "restart" ->
                       _restart_service(deployment_history, svc_history, "s1",
                                        get_ok, payload, update_ok)
                  [] OTHER -> none
       IN  /\ deployment_history' = r.deployment_history
           /\ svc_history' = r.history
           /\ act_obs' = [agent |-> "service", has_id |-> action.has_id,
                          kind |-> action.kind, ret |-> r.ret, raised |-> FALSE,
                          calls |-> r.calls, sent |-> r.sent,
                          scale_factor |-> action.scale_factor,
                          get_ok |-> get_ok, read |-> payload]
    /\ UNCHANGED <<node_history, health_history>>
    /\ UNCHANGED <<now, orgVars, svcVars, nodeVars, auxVars>>

ActNext ==
    \/ \E action \in NodeActions, get_ok, update_ok \in BOOLEAN :
          NodeAct(action, get_ok, update_ok)
    \/ \E action \in ServiceActions, get_ok, update_ok \in BOOLEAN,
          payload \in ServicePayloads :
          ServiceAct(action, get_ok, payload, update_ok)

----------------------------------------------------------------------------
(* Part III.d  register_node() and delete_node().  A message is a sequence *)
(* of words (punctuation is a word of its own); lower() maps each word to  *)
(* its lower-case form and `sub in msg' is a search for a run of words.    *)

LowerWord(w) ==
    CASE w = "API" -> "api"
      [] w = "Node" -> "node"
      [] w = "Not" -> "not"
      [] w = "Found" -> "found"
      [] w = "Error" -> "error"
      [] w = "Cannot" -> "cannot"
      [] w = "Dependencies" -> "dependencies"
      [] w = "Exist" -> "exist"
      [] w = "Validation" -> "validation"
      [] w = "Unknown" -> "unknown"
      [] OTHER -> w

lower(msg) == [i \in 1..Len(msg) |-> LowerWord(msg[i])]

Contains(msg, sub) ==
    \E i \in 0..(Len(msg) - Len(sub)) : SubSeq(msg, i + 1, i + Len(sub)) = sub

S_not_found == <<"not", "found">>
S_already_exists == <<"already", "exists">>
S_dependencies == <<"dependencies">>
S_api == <<"api">>
KnownSubstrings == {S_not_found, S_already_exists, S_dependencies, S_api}

\* str(e) of what the client call throws
ThrownMessages ==
    {pre \o core :
        pre \in {<< >>, <<"API", ":">>, <<"Error", ":">>},
        core \in {<<"Node", "not", "found">>, <<"Not", "Found">>,
                  <<"Node", "already", "exists">>,
                  <<"Cannot", "delete", "node", ":", "dependencies", "exist">>,
                  <<"Dependencies", "Exist">>,
                  <<"connection", "refused">>, << >>}}

\* what the client call does: returns a dict or None, or raises
ClientOutcomes ==
    {[kind |-> k, msg |-> << >>] : k \in {"success", "error_detail", "other"}}
    \cup {[kind |-> "raises", msg |-> m] : m \in ThrownMessages}

RequiredFields == {"name", "nodeType", "publicKey", "token", "registeredServices", "policy"}
\* node_data: complete and well typed, lacking one field, or one field badly typed
NodeDatas ==
    {[name |-> n, defect |-> "none", field |-> "none"] : n \in {"node-a", "node-b"}}
    \cup {[name |-> "node-a", defect |-> d, field |-> f] :
             d \in {"missing", "bad_type"}, f \in RequiredFields}

ErrorResult(message, calls) ==
    [status |-> "error", node_id |-> "none", message |-> message,
     raised |-> FALSE, calls |-> calls]

\* result of the validation part of register_node; "pass" when it lets through
RegisterValidation(node_data) ==
    IF node_data.defect = "none" THEN "pass"
    ELSE IF node_data.defect = "missing"
    THEN <<"Validation", "error", ":", "Missing", "required", "field", ":", node_data.field>>
    ELSE <<"Validation", "error", ":", node_data.field, "badly", "typed">>

\* the except branch of register_node
RegisterFailure(e) ==
    LET msg == lower(e)
    IN  IF Contains(msg, S_already_exists)
        THEN <<"Node", "already", "exists", ":">> \o e
        ELSE IF Contains(msg, S_api)
        THEN <<"API", "error", ":">> \o e
        ELSE <<"Node", "registration", "failed", ":">> \o e

register_node(node_data, outcome) ==
    IF RegisterValidation(node_data) # "pass"
    THEN ErrorResult(RegisterValidation(node_data), << >>)
    ELSE CASE outcome.kind = "success" ->
                [status |-> "success", node_id |-> node_data.name,
                 message |-> <<"Node", "registered", "successfully", ".">>,
                 raised |-> FALSE, calls |-> <<"create_node">>]
           [] outcome.kind = "error_detail" ->
                ErrorResult(<<"exchange", "error">>, <<"create_node">>)
           [] outcome.kind = "other" ->
                ErrorResult(<<"Unknown", "error", "during", "node", "registration", ".">>,
                            <<"create_node">>)
           [] OTHER -> ErrorResult(RegisterFailure(outcome.msg), <<"create_node">>)

\* variant: the except branch answers with fixed texts, without str(e)
DeleteFailure_fixed(e) ==
    LET msg == lower(e)
    IN  IF Contains(msg, S_not_found)
        THEN <<"Node", "not", "found">>
        ELSE IF Contains(msg, S_api)
        THEN <<"API", "error">>
        ELSE IF Contains(msg, S_dependencies)
        THEN <<"Cannot", "delete", "node", ":", "dependencies", "exist", ".">>
        ELSE <<"Node", "deletion", "failed">>

\* the except branch of delete_node
DeleteFailure(e) ==
    LET msg == lower(e)
    IN  IF Contains(msg, S_not_found)
        THEN <<"Node", "not", "found", ":">> \o e
        ELSE IF Contains(msg, S_api)
        THEN <<"API", "error", ":">> \o e
        ELSE IF Contains(msg, S_dependencies)
        THEN <<"Cannot", "delete", "node", ":", "dependencies", "exist", ".">> \o e
        ELSE <<"Node", "deletion", "failed", ":">> \o e

\* node_id arguments: "" stands for any falsy or non-string value
NodeIdArgs == {"", "n1", "n2", "n3"}

delete_node(node_id, outcome) ==
    IF node_id = ""
    THEN ErrorResult(<<"Validation", "error", ":", "node_id", "must", "be", "a",
                       "non-empty", "string", ".">>, << >>)
    ELSE CASE outcome.kind = "success" ->
                [status |-> "success", node_id |-> "none",
                 message |-> <<"Node", "deleted", "successfully", ".">>,
                 raised |-> FALSE, calls |-> <<"delete_node">>]
           [] outcome.kind = "error_detail" ->
                ErrorResult(<<"exchange", "error">>, <<"delete_node">>)
           [] outcome.kind = "other" ->
                ErrorResult(<<"Unknown", "error", "during", "node", "deletion", ".">>,
                            <<"delete_node">>)
           [] OTHER -> ErrorResult(DeleteFailure(outcome.msg), <<"delete_node">>)

NoOutcome == [kind |-> "none", msg |-> << >>]

AuxInit ==
    /\ reg_obs = [op |-> "none", arg |-> "none", outcome |-> NoOutcome,
                  result |-> ErrorResult(<< >>, << >>)]
    /\ cls_obs = [kind |-> "none"]

\* NodeManagementAgent.register_node(node_data)
RegisterNode(node_data, outcome) ==
    /\ RegisterValidation(node_data) # "pass" => outcome = NoOutcome
    /\ RegisterValidation(node_data) = "pass" => outcome \in ClientOutcomes
    /\ reg_obs' = [op |-> "register_node", arg |-> node_data.name, outcome |-> outcome,
                   result |-> register_node(node_data, outcome)]
    /\ UNCHANGED <<now, orgVars, svcVars, nodeVars, actVars, cls_obs, extVars>>

\* NodeManagementAgent.delete_node(node_id)
DeleteNode(node_id, outcome) ==
    /\ node_id = "" => outcome = NoOutcome
    /\ node_id # "" => outcome \in ClientOutcomes
    /\ reg_obs' = [op |-> "delete_node", arg |-> node_id, outcome |-> outcome,
                   result |-> delete_node(node_id, outcome)]
    /\ UNCHANGED <<now, orgVars, svcVars, nodeVars, actVars, cls_obs, extVars>>

RegNext ==
    \/ \E node_data \in NodeDatas, outcome \in ClientOutcomes \cup {NoOutcome} :
          RegisterNode(node_data, outcome)
    \/ \E node_id \in NodeIdArgs, outcome \in ClientOutcomes \cup {NoOutcome} :
          DeleteNode(node_id, outcome)

----------------------------------------------------------------------------
(* Part III.e  NodeMetricsCollector: classification of one node's          *)
(* statistics.  stats maps each metric that has statistics to its mean.    *)

cpu_warning == 70
cpu_critical == 90
memory_warning == 70
memory_critical == 90
disk_warning == 80
disk_critical == 95
temp_warning == 70
temp_critical == 80

NodeMetricNames == {"cpu_usage", "memory_usage", "disk_usage", "temperature"}
MeanVals == {50, 75, 85, 96}
NodeStats == UNION {[D -> MeanVals] : D \in SUBSET NodeMetricNames}

\* variant: no check for empty statistics
NodeStatus_unguarded(stats) ==
    IF /\ {"cpu_usage", "memory_usage"} \subseteq DOMAIN stats
       /\ (stats["cpu_usage"] > cpu_critical \/ stats["memory_usage"] > memory_critical)
    THEN "offline"
    ELSE IF /\ {"cpu_usage", "memory_usage"} \subseteq DOMAIN stats
            /\ (stats["cpu_usage"] > cpu_warning \/ stats["memory_usage"] > memory_warning)
    THEN "degraded"
    ELSE IF "disk_usage" \in DOMAIN stats /\ stats["disk_usage"] > disk_critical
    THEN "offline"
    ELSE IF "disk_usage" \in DOMAIN stats /\ stats["disk_usage"] > disk_warning
    THEN "degraded"
    ELSE "online"

NodeStatus(stats) ==
    IF DOMAIN stats = {} THEN "unknown"
    ELSE IF /\ {"cpu_usage", "memory_usage"} \subseteq DOMAIN stats
            /\ (stats["cpu_usage"] > cpu_critical \/ stats["memory_usage"] > memory_critical)
    THEN "offline"
    ELSE IF /\ {"cpu_usage", "memory_usage"} \subseteq DOMAIN stats
            /\ (stats["cpu_usage"] > cpu_warning \/ stats["memory_usage"] > memory_warning)
    THEN "degraded"
    ELSE IF "disk_usage" \in DOMAIN stats /\ stats["disk_usage"] > disk_critical
    THEN "offline"
    ELSE IF "disk_usage" \in DOMAIN stats /\ stats["disk_usage"] > disk_warning
    THEN "degraded"
    ELSE "online"

NodeHealth(stats) ==
    IF DOMAIN stats = {} THEN "unknown"
    ELSE IF /\ {"cpu_usage", "memory_usage"} \subseteq DOMAIN stats
            /\ (stats["cpu_usage"] > cpu_critical \/ stats["memory_usage"] > memory_critical)
    THEN "critical"
    ELSE IF /\ {"cpu_usage", "memory_usage"} \subseteq DOMAIN stats
            /\ (stats["cpu_usage"] > cpu_warning \/ stats["memory_usage"] > memory_warning)
    THEN "warning"
    ELSE IF "temperature" \in DOMAIN stats /\ stats["temperature"] > temp_critical
    THEN "critical"
    ELSE IF "temperature" \in DOMAIN stats /\ stats["temperature"] > temp_warning
    THEN "warning"
    ELSE "healthy"

\* the alert dicts carry 'type' and 'message'; the message names the
\* quantity in prose ("CPU usage is critical: 96.0%")
MetricAlerts(stats, metric, prose, warning, critical) ==
    IF metric \notin DOMAIN stats THEN << >>
    ELSE (IF stats[metric] > critical
          THEN <<[type |-> "critical", message |-> <<prose, "is", "critical">>]>>
          ELSE << >>)
         \o (IF stats[metric] > warning
             THEN <<[type |-> "warning", message |-> <<prose, "is", "high">>]>>
             ELSE << >>)

NodeAlerts(stats) ==
    MetricAlerts(stats, "cpu_usage", "CPU usage", cpu_warning, cpu_critical)
    \o MetricAlerts(stats, "memory_usage", "Memory usage", memory_warning, memory_critical)
    \o MetricAlerts(stats, "disk_usage", "Disk usage", disk_warning, disk_critical)
    \o MetricAlerts(stats, "temperature", "Temperature", temp_warning, temp_critical)

\* classification of one node's statistics
NodeClassify(stats) ==
    /\ cls_obs' = [kind |-> "node", stats |-> stats, status |-> NodeStatus(stats),
                   health |-> NodeHealth(stats), alerts |-> NodeAlerts(stats)]
    /\ UNCHANGED <<now, orgVars, svcVars, nodeVars, actVars, reg_obs, extVars>>

NodeClsNext == \E stats \in NodeStats : NodeClassify(stats)

----------------------------------------------------------------------------
(* Part III.g  ServiceMetricsCollector._analyze_entity_metrics.  error_rate *)
(* is counted in hundredths (0.05 is 5); a metric missing from the dict     *)
(* takes the default of its .get(): 0.0, or infinity for response_time.     *)

svc_cpu_warning == 80
svc_cpu_critical == 90
svc_memory_warning == 80
svc_memory_critical == 90
response_warning == 1000
response_critical == 2000
error_warning == 5
error_critical == 10

ServiceMetricNames == {"cpu_usage", "memory_usage", "response_time", "error_rate"}
ServiceVals(metric) ==
    CASE metric = "response_time" -> {500, 1500, 2500}
      [] metric = "error_rate" -> {0, 6, 12}
      [] OTHER -> {50, 85, 96}
ServiceMetrics ==
    UNION {{f \in [D -> UNION {ServiceVals(k) : k \in ServiceMetricNames}] :
               \A k \in D : f[k] \in ServiceVals(k)} : D \in SUBSET ServiceMetricNames}

\* metrics.get(metric, default) > bound
GetOver(metrics, metric, bound) ==
    IF metric \in DOMAIN metrics THEN metrics[metric] > bound
    ELSE metric = "response_time"

\* one "Check ..." block: what it does to status and health, and its alert
ServiceCheck(acc, metrics, metric, warning, critical, what) ==
    IF GetOver(metrics, metric, critical)
    THEN [status |-> "critical", health |-> "poor",
          alerts |-> Append(acc.alerts, <<"Critical", what>>)]
    ELSE IF GetOver(metrics, metric, warning)
    THEN [acc EXCEPT !.status = "warning",
                     !.alerts = Append(@, <<"High", what>>)]
    ELSE acc

ServiceAnalysis(metrics) ==
    LET a0 == [status |-> "healthy", health |-> "good", alerts |-> << >>]
        a1 == ServiceCheck(a0, metrics, "cpu_usage", svc_cpu_warning, svc_cpu_critical, "CPU usage")
        a2 == ServiceCheck(a1, metrics, "memory_usage", svc_memory_warning,
                           svc_memory_critical, "memory usage")
        a3 == ServiceCheck(a2, metrics, "response_time", response_warning,
                           response_critical, "response time")
    IN  ServiceCheck(a3, metrics, "error_rate", error_warning, error_critical, "error rate")

\* classification of one service's metrics
ServiceClassify(metrics) ==
    /\ cls_obs' = [kind |-> "service", stats |-> metrics,
                   status |-> ServiceAnalysis(metrics).status,
                   health |-> ServiceAnalysis(metrics).health,
                   alerts |-> ServiceAnalysis(metrics).alerts]
    /\ UNCHANGED <<now, orgVars, svcVars, nodeVars, actVars, reg_obs, extVars>>

\* windows handed to MetricsCollector.analyze_metrics: snapshots of one
\* service, oldest first
Windows ==
    UNION {[1..n -> {[timestamp |-> isoformat(0),
                      data |-> [service_id |-> "s1", cpu_usage |-> v]] : v \in CpuVals}] :
              n \in 0..(MaxCount + 1)}

\* MetricsCollector.analyze_metrics(window)
WindowAnalyze(ms) ==
    /\ cls_obs' = [kind |-> "window", stats |-> ms,
                   status |-> analyze_metrics(ms).status,
                   health |-> analyze_metrics(ms).health,
                   alerts |-> analyze_metrics(ms).alerts,
                   trend |-> analyze_metrics(ms).trend]
    /\ UNCHANGED <<now, orgVars, svcVars, nodeVars, actVars, reg_obs, extVars>>

ClsNext ==
    \/ NodeClsNext
    \/ \E metrics \in ServiceMetrics : ServiceClassify(metrics)
    \/ \E ms \in Windows : WindowAnalyze(ms)

----------------------------------------------------------------------------
(* Part VI  HealthMonitor / OrganizationHealthMonitor (src/health.py) *)

CheckStatuses == {"healthy", "degraded", "unhealthy"}

CountOf(history, status) == Len(SelectSeq(history, LAMBDA x : x = status))

\* variant: the overall status is that of the latest check
get_health_summary_latest(history) ==
    IF Len(history) = 0
    THEN [ev |-> "summary", raised |-> FALSE, status |-> "unknown", has_counts |-> FALSE,
          healthy |-> 0, degraded |-> 0, unhealthy |-> 0, total_checks |-> 0]
    ELSE [ev |-> "summary", raised |-> FALSE,
          status |-> history[Len(history)],
          has_counts |-> TRUE,
          healthy |-> CountOf(history, "healthy"),
          degraded |-> CountOf(history, "degraded"),
          unhealthy |-> CountOf(history, "unhealthy"),
          total_checks |-> Len(history)]

\* OrganizationHealthMonitor.get_health_summary; the summary of an empty
\* history has no 'counts' and no 'total_checks' (has_counts FALSE)
get_health_summary(history) ==
    IF Len(history) = 0
    THEN [ev |-> "summary", raised |-> FALSE, status |-> "unknown", has_counts |-> FALSE,
          healthy |-> 0, degraded |-> 0, unhealthy |-> 0, total_checks |-> 0]
    ELSE [ev |-> "summary", raised |-> FALSE,
          status |-> IF CountOf(history, "unhealthy") > 0 THEN "unhealthy"
                     ELSE IF CountOf(history, "degraded") > 0 THEN "degraded"
                     ELSE "healthy",
          has_counts |-> TRUE,
          healthy |-> CountOf(history, "healthy"),
          degraded |-> CountOf(history, "degraded"),
          unhealthy |-> CountOf(history, "unhealthy"),
          total_checks |-> Len(history)]

NoMonitorObs ==
    [ev |-> "none", raised |-> FALSE, status |-> "none", has_counts |-> FALSE,
     healthy |-> 0, degraded |-> 0, unhealthy |-> 0, total_checks |-> 0]

MonitorInit ==
    /\ monitor_history = << >>
    /\ monitor_obs = NoMonitorObs

\* HealthMonitor.record_health_check(check): append, then write the file;
\* a failing write raises after the append
RecordHealthCheck(status, save_ok) ==
    /\ Len(monitor_history) < MaxChecks
    /\ monitor_history' = Append(monitor_history, status)
    /\ monitor_obs' = [NoMonitorObs EXCEPT !.ev = "record", !.raised = ~save_ok,
                                           !.status = status]
    /\ UNCHANGED <<now, orgVars, svcVars, nodeVars, actVars, reg_obs, cls_obs,
                   request_counts, error_counts, rate_obs>>

\* OrganizationHealthMonitor.get_health_summary()
GetHealthSummary ==
    /\ monitor_obs' = get_health_summary(monitor_history)
    /\ UNCHANGED <<now, orgVars, svcVars, nodeVars, actVars, reg_obs, cls_obs,
                   monitor_history, request_counts, error_counts, rate_obs>>

HealthNext ==
    \/ \E status \in CheckStatuses, save_ok \in BOOLEAN : RecordHealthCheck(status, save_ok)
    \/ GetHealthSummary

----------------------------------------------------------------------------
(* Part VII  ServiceMetricsCollector response-time bookkeeping
   (src/ai/service_metrics.py) *)

ServiceIds == {"s1", "s2"}

\* what requests.get / raise_for_status can do in _measure_response_time
MeasureOutcomes == {"ok", "request_exception", "other_exception"}

\* a rate is the exact quotient num / den
Rate(num, den) == [num |-> num, den |-> den]

\* variant: the errors are divided by all the measurements made
_calculate_error_rate_of_total(requests, errors, service_id) ==
    IF requests[service_id] + errors[service_id] = 0
    THEN Rate(0, 1)
    ELSE Rate(errors[service_id], requests[service_id] + errors[service_id])

\* ServiceMetricsCollector._calculate_error_rate
_calculate_error_rate(requests, errors, service_id) ==
    IF requests[service_id] = 0
    THEN Rate(0, 1)
    ELSE Rate(errors[service_id], requests[service_id])

NoRateObs == [ev |-> "none", service_id |-> "none", rate |-> Rate(0, 1)]

RateInit ==
    /\ request_counts = [s \in ServiceIds |-> 0]
    /\ error_counts = [s \in ServiceIds |-> 0]
    /\ rate_obs = NoRateObs

\* ServiceMetricsCollector._measure_response_time(service_id, url)
MeasureResponseTime(service_id, outcome) ==
    /\ request_counts[service_id] < MaxRequests
    /\ error_counts[service_id] < MaxRequests
    /\ request_counts' = IF outcome = "ok"
                         THEN [request_counts EXCEPT ![service_id] = @ + 1]
                         ELSE request_counts
    /\ error_counts' = IF outcome = "request_exception"
                       THEN [error_counts EXCEPT ![service_id] = @ + 1]
                       ELSE error_counts
    /\ rate_obs' = [NoRateObs EXCEPT !.ev = outcome, !.service_id = service_id]
    /\ UNCHANGED <<now, orgVars, svcVars, nodeVars, actVars, reg_obs, cls_obs,
                   monitor_history, monitor_obs>>

\* ServiceMetricsCollector._calculate_error_rate(service_id)
CalculateErrorRate(service_id) ==
    /\ rate_obs' = [ev |-> "rate", service_id |-> service_id,
                    rate |-> _calculate_error_rate(request_counts, error_counts, service_id)]
    /\ UNCHANGED <<now, orgVars, svcVars, nodeVars, actVars, reg_obs, cls_obs,
                   monitor_history, monitor_obs, request_counts, error_counts>>

RateNext ==
    \/ \E service_id \in ServiceIds, outcome \in MeasureOutcomes :
          MeasureResponseTime(service_id, outcome)
    \/ \E service_id \in ServiceIds : CalculateErrorRate(service_id)

----------------------------------------------------------------------------
(* Part IV  Initial state and specifications *)

vars == <<now, orgVars, svcVars, nodeVars, actVars, auxVars>>

Init ==
    /\ now = 0
    /\ OrgInit
    /\ SvcInit
    /\ NodeInit
    /\ ActInit
    /\ AuxInit
    /\ MonitorInit
    /\ RateInit

SpecOrg == Init /\ [][OrgNext]_vars

\* two coroutines on one event loop, working on the resources of one
\* organization: the cached reads against the update and delete writes
RaceReadCalls == {c \in ReadCalls : c.org \in {NoStr, Org1}}
RaceWriteCalls ==
    {c \in WriteCalls :
        /\ c.op \in {"update_user", "delete_user", "update_organization", "delete_organization"}
        /\ c.org = Org1
        /\ Validates(c)
        /\ c.roles \in {<< >>, <<"user">>}}

RaceNext ==
    \/ OrgTick
    \/ \E t \in Tasks, c \in RaceReadCalls : ReadStart(t, c)
    \/ \E t \in Tasks, ok \in BOOLEAN, truthy \in BOOLEAN : ReadRespond(t, ok, truthy)
    \/ \E t \in Tasks : ReadFinish(t)
    \/ \E t \in Tasks, c \in RaceWriteCalls : WriteStart(t, c)
    \/ \E t \in Tasks, ok \in BOOLEAN : WriteApply(t, ok)
    \/ \E t \in Tasks : WriteFinish(t)

SpecOrgRace == Init /\ [][RaceNext]_vars

SpecSvc == Init /\ [][SvcNext]_vars

SpecNode == Init /\ [][NodeNext]_vars

SpecAct == Init /\ [][ActNext]_vars

SpecReg == Init /\ [][RegNext]_vars

SpecCls == Init /\ [][ClsNext]_vars

SpecHealth == Init /\ [][HealthNext]_vars

SpecRate == Init /\ [][RateNext]_vars

----------------------------------------------------------------------------
(* Part I.d  Properties of the cache and of the manager *)

Live(k) == k \in DOMAIN cache /\ now <= cache[k].created_at + cache[k].ttl
Dead(k) == k \in DOMAIN cache /\ now > cache[k].created_at + cache[k].ttl
AllIdle == \A t \in Tasks : task[t].pc = "idle"

\* C1: a lookup of key k made when now > created_at + ttl returns None and
\* deletes k's entry; a lookup made when now <= created_at + ttl returns the
\* stored payload and leaves the entry as it was.
C1_ExpiryCheckedAtRead ==
    [][lookups' = lookups + 1 =>
        LET k == last'.key
        IN  /\ Dead(k) => (last'.cached = NoData /\ k \notin DOMAIN cache')
            /\ Live(k) => /\ last'.cached = cache[k].data
                          /\ k \in DOMAIN cache'
                          /\ cache'[k] = cache[k]]_vars

\* an entry was looked up after its ttl had elapsed: miss, entry gone
C1_Witness ==
    /\ last.ev = "read_fetch"
    /\ last.had /\ last.expired
    /\ last.cached = NoData
    /\ last.key \notin DOMAIN cache

\* C2: the invalidation a successful write performs removes exactly the
\* cached keys that start with an invalidated prefix; every other key stays
\* with the same payload, created_at and ttl.
C2_InvalidateExactlyPrefix ==
    [][last'.ev = "write_ok" =>
        LET ps == Range(InvalidatedPrefixes(last'.op, last'.org, last'.user))
            hit(k) == \E p \in ps : IsPrefix(p, k)
        IN  /\ \A k \in DOMAIN cache' : ~hit(k)
            /\ \A k \in DOMAIN cache :
                  ~hit(k) => (k \in DOMAIN cache' /\ cache'[k] = cache[k])]_vars

\* a write removed some entry and left another one in place
C2_Witness ==
    /\ last.ev = "write_ok"
    /\ last.removed # {}
    /\ DOMAIN cache # {}

\* C3: right after a successful mutating write the cache holds neither the
\* list key of the written resource family nor, for update and delete, the
\* key of the written entity.
C3_WriteInvalidatesListAndEntity ==
    last.ev = "write_ok" =>
        /\ last.op \in OrgWriteOps => OrgsKey \notin DOMAIN cache
        /\ last.op \in UserWriteOps => UsersKey(last.org) \notin DOMAIN cache
        /\ last.op \in {"update_organization", "delete_organization"} =>
              OrgKey(last.org) \notin DOMAIN cache
        /\ last.op \in {"update_user", "delete_user"} =>
              UserKey(last.org, last.user) \notin DOMAIN cache

\* an update or delete found both the list and the entity cached
C3_Witness ==
    /\ last.ev = "write_ok"
    /\ last.op \in {"update_user", "delete_user", "update_organization", "delete_organization"}
    /\ Cardinality(last.removed) = 2

\* C4: once a cached read and an update/delete write on the same resource
\* have both returned, the cache holds no payload fetched before the write
\* took effect.
C4_NoStaleEntryAfterRace ==
    AllIdle => \A k \in DOMAIN cache : cache[k].data.ver = srv[k]

\* C5: every lookup records exactly one counter event, a hit iff a
\* non-expired entry for the key exists and a miss otherwise, so hits plus
\* misses equals the number of lookups.
C5_HitOrMissPerLookup ==
    /\ [](hits + misses = lookups)
    /\ [][lookups' = lookups + 1 =>
            LET k == last'.key
            IN  IF Live(k)
                THEN hits' = hits + 1 /\ misses' = misses
                ELSE hits' = hits /\ misses' = misses + 1]_vars

\* a miss was recorded, and then a hit on a live entry
C5_Witness ==
    /\ hits >= 1
    /\ misses >= 1
    /\ last.ev = "read_cached" /\ last.had /\ ~last.expired

----------------------------------------------------------------------------
(* Part II.c  Properties of the metric history and of the service agent *)

\* C6: after cleanup, and after every append (which runs cleanup), the
\* history holds no more snapshots than the configured maximum count and no
\* snapshot older than the configured maximum age.
C6_HistoryWithinCountAndAge ==
    svc_ev \in {"add_metrics", "cleanup", "cleanup_again"} =>
        /\ Len(metrics_history) <= MaxCount
        /\ \A i \in 1..Len(metrics_history) :
              fromisoformat(metrics_history[i].timestamp) > now - AnalysisWindow

\* C7: within analyze(), the window an entity's statistics, trends, status
\* and health are computed from holds only snapshots appended for that
\* entity.
C7_WindowHoldsOwnSnapshotsOnly ==
    svc_ev = "analyze" =>
        \A sid \in DOMAIN svc_result.services :
            \A i \in 1..Len(svc_result.services[sid].window) :
                svc_result.services[sid].window[i].data.service_id = sid

\* C9: if collecting the metrics of a listed service raises, analyze() does
\* not raise, returns one error-typed alert for that service, and returns
\* an analysis entry for each of the remaining services.
C9_ServiceFailureIsolated ==
    (svc_ev = "analyze" /\ \E i \in 1..Len(svc_items) : ~svc_items[i].data.ok) =>
        /\ ~svc_result.raised
        /\ \A i \in 1..Len(svc_items) :
              IF svc_items[i].data.ok
              THEN svc_items[i].id \in DOMAIN svc_result.services
              ELSE Cardinality({j \in 1..Len(svc_result.alerts) :
                        /\ svc_result.alerts[j].type = "error"
                        /\ "service_id" \in DOMAIN svc_result.alerts[j]
                        /\ svc_result.alerts[j].service_id = svc_items[i].id}) = 1

----------------------------------------------------------------------------
(* Part III.c  Properties of the agents' analyze() and act() *)

\* a node whose collection or analysis raised inside the loop body
Fails(item) == item.outcome.kind # "ok" \/ item.outcome.keys # "all"

ErrorAlertsFor(node_id) ==
    {i \in 1..Len(node_result.alerts) :
        /\ "node_id" \in DOMAIN node_result.alerts[i]
        /\ node_result.alerts[i].node_id = node_id
        /\ node_result.alerts[i].type = "error"}

\* C8: NodeManagementAgent.analyze() isolates per-node failures: whatever
\* nodes fail, every other listed node has an entry under 'nodes', each failed
\* node has exactly one error-typed alert carrying its node_id, and analyze()
\* does not raise.
C8_NodeFailureIsolated ==
    (node_items.calls = 1 /\ node_items.list_ok) =>
        /\ ~node_result.raised
        /\ \A i \in 1..Len(node_items.items) :
              LET item == node_items.items[i]
              IN  /\ ~Fails(item) => item.id \in DOMAIN node_result.nodes
                  /\ Cardinality(ErrorAlertsFor(item.id)) = (IF Fails(item) THEN 1 ELSE 0)

\* a failed node followed by a healthy one that still got its entry
C8_Witness ==
    /\ node_items.calls = 1
    /\ Len(node_items.items) = 2
    /\ Fails(node_items.items[1])
    /\ ~Fails(node_items.items[2])
    /\ node_items.items[2].id \in DOMAIN node_result.nodes
    /\ Cardinality(ErrorAlertsFor(node_items.items[1].id)) = 1

Recognised(obs) ==
    \/ obs.agent = "node" /\ obs.kind \in NodeKinds
    \/ obs.agent = "service" /\ obs.kind \in ServiceKinds

\* C10: act(action) never raises; for an action whose kind is not recognised
\* or that lacks the entity id, act returns False and issues no call to the
\* external API.
C10_ActRejectsWithoutCalls ==
    act_obs.agent # "none" =>
        /\ ~act_obs.raised
        /\ (~Recognised(act_obs) \/ ~act_obs.has_id) =>
              (act_obs.ret = FALSE /\ act_obs.calls = << >>)

\* an unknown kind was given with the id present and was refused
C10_Witness ==
    /\ act_obs.agent = "node"
    /\ act_obs.kind = "bogus"
    /\ act_obs.has_id
    /\ act_obs.ret = FALSE
    /\ act_obs.calls = << >>

\* C11: delete_node and register_node never raise; when the client call
\* throws, the result has status 'error' and its lower-cased message contains
\* every known substring ('not found', 'already exists', 'dependencies',
\* 'api') that the lower-cased thrown message contains.
C11_FailureMessageKeepsCause ==
    reg_obs.op # "none" =>
        /\ ~reg_obs.result.raised
        /\ reg_obs.outcome.kind = "raises" =>
              /\ reg_obs.result.status = "error"
              /\ \A sub \in KnownSubstrings :
                    Contains(lower(reg_obs.outcome.msg), sub)
                       => Contains(lower(reg_obs.result.message), sub)

\* a delete whose client call threw "Cannot delete node: dependencies exist"
C11_Witness ==
    /\ reg_obs.op = "delete_node"
    /\ reg_obs.outcome.kind = "raises"
    /\ reg_obs.outcome.msg = <<"Cannot", "delete", "node", ":", "dependencies", "exist">>
    /\ reg_obs.result.status = "error"
    /\ Contains(lower(reg_obs.result.message), S_dependencies)

----------------------------------------------------------------------------
(* Part III.f  Properties of the node classification *)

Has(stats, metric) == metric \in DOMAIN stats
Over(stats, metric, bound) == Has(stats, metric) /\ stats[metric] > bound

\* the alert names the metric it is about
AlertIdentifies(a, metric) == "metric" \in DOMAIN a /\ a.metric = metric

CriticalAlertFor(alerts, metric) ==
    \E i \in 1..Len(alerts) :
        alerts[i].type = "critical" /\ AlertIdentifies(alerts[i], metric)

\* C12: a node whose cpu_usage mean or memory_usage mean exceeds its critical
\* bound is classified status 'offline', health 'critical', with at least one
\* critical alert identifying the breaching metric.
C12_CriticalCpuOrMemory ==
    cls_obs.kind = "node" =>
        \A metric \in {"cpu_usage", "memory_usage"} :
            Over(cls_obs.stats, metric,
                 IF metric = "cpu_usage" THEN cpu_critical ELSE memory_critical) =>
                /\ cls_obs.status = "offline"
                /\ cls_obs.health = "critical"
                /\ CriticalAlertFor(cls_obs.alerts, metric)

\* C13: a disk_usage mean above the disk critical bound yields status
\* 'offline' for every value of cpu_usage and memory_usage.
C13_CriticalDiskIsOffline ==
    (cls_obs.kind = "node" /\ Over(cls_obs.stats, "disk_usage", disk_critical))
        => cls_obs.status = "offline"

AnyCritical(stats) ==
    \/ Over(stats, "cpu_usage", cpu_critical)
    \/ Over(stats, "memory_usage", memory_critical)
    \/ Over(stats, "temperature", temp_critical)

AnyWarning(stats) ==
    \/ Over(stats, "cpu_usage", cpu_warning)
    \/ Over(stats, "memory_usage", memory_warning)
    \/ Over(stats, "temperature", temp_warning)

\* C14: node health is 'critical' whenever the mean of cpu_usage,
\* memory_usage or temperature exceeds its critical bound; it is 'warning'
\* only when no critical bound is exceeded and some warning bound is.
C14_HealthCriticalWins ==
    cls_obs.kind = "node" =>
        /\ AnyCritical(cls_obs.stats) => cls_obs.health = "critical"
        /\ cls_obs.health = "warning" =>
              (~AnyCritical(cls_obs.stats) /\ AnyWarning(cls_obs.stats))

\* the service's only breach is an error_rate between its two bounds
OnlyErrorRateWarning(metrics) ==
    /\ DOMAIN metrics = ServiceMetricNames
    /\ metrics["error_rate"] > error_warning
    /\ ~(metrics["error_rate"] > error_critical)
    /\ ~(metrics["cpu_usage"] > svc_cpu_warning)
    /\ ~(metrics["memory_usage"] > svc_memory_warning)
    /\ ~(metrics["response_time"] > response_warning)

\* C15: a service whose only breach is an error_rate mean of 0.06 (above the
\* 0.05 warning bound, below the 0.10 critical bound) is analysed as status
\* 'running', health 'warning', with a warning alert.
C15_ErrorRateWarning ==
    (cls_obs.kind = "service" /\ OnlyErrorRateWarning(cls_obs.stats)) =>
        /\ cls_obs.status = "running"
        /\ cls_obs.health = "warning"
        /\ \E i \in 1..Len(cls_obs.alerts) : cls_obs.alerts[i][1] = "High"

NodeStatuses == {"online", "degraded", "offline", "unknown"}
ServiceStatuses == {"running", "degraded", "failed", "unknown"}
Healths == {"healthy", "warning", "critical", "unknown"}

\* C16: in every analysis result the status belongs to the closed set of the
\* entity kind (node: online, degraded, offline, unknown; service: running,
\* degraded, failed, unknown) and the health is one of healthy, warning,
\* critical, unknown.
C16_StatusAndHealthInClosedSets ==
    cls_obs.kind # "none" =>
        /\ cls_obs.status \in (IF cls_obs.kind = "node" THEN NodeStatuses
                               ELSE ServiceStatuses)
        /\ cls_obs.health \in Healths

\* nothing to analyse: an empty window, or statistics of no metric
EmptyInput ==
    \/ cls_obs.kind = "window" /\ Len(cls_obs.stats) = 0
    \/ cls_obs.kind = "node" /\ DOMAIN cls_obs.stats = {}

----------------------------------------------------------------------------
(* Part III.h  Recommendations *)

\* the action the first-match table gives for a classification; "none" when
\* no row applies
TableAction(status, health, trend, kind) ==
    IF status = (IF kind = "node" THEN "offline" ELSE "failed")
    THEN (IF kind = "node" THEN "check_health" ELSE "restart")
    ELSE IF health = "critical" THEN "update"
    ELSE IF health = "warning" /\ trend = "increasing"
    THEN (IF kind = "node" THEN "cleanup" ELSE "scale")
    ELSE "none"

ActionsOf(recs) == [i \in 1..Len(recs) |-> recs[i].action]

NodeRecsFor(node_id) ==
    SelectSeq(node_result.recommendations, LAMBDA r : r.node_id = node_id)

Observations == _extract_numeric_values(cls_obs.stats)

\* C18: for every window and every metric, fewer than 2 numeric observations
\* give the trend 'unknown', and 2 or more observations that are all equal
\* give the trend 'stable'.  (trend "none": the metric has no entry in the
\* trends dict, which happens for a window without observations.)
C18_TrendOfShortOrConstantWindow ==
    cls_obs.kind = "window" =>
        /\ (Len(Observations) < 2 /\ cls_obs.trend # "none") => cls_obs.trend = "unknown"
        /\ (Len(Observations) >= 2 /\ \A i \in 1..Len(Observations) :
                                         Observations[i] = Observations[1])
              => cls_obs.trend = "stable"

----------------------------------------------------------------------------
(* Part III.i  The action histories *)

\* a cap below the number of act() calls explored
ActionHistoryCap == MaxLog - 1

\* C20: the action history to which act() appends outcome records is
\* bounded: after any sequence of act() calls its length never exceeds a
\* fixed cap.
C20_ActionHistoryBounded ==
    /\ Len(node_history) <= ActionHistoryCap
    /\ Len(deployment_history) <= ActionHistoryCap
    /\ Len(svc_history) <= ActionHistoryCap

----------------------------------------------------------------------------
(* Part V  Further properties *)

ReasonOf(message) ==
    IF IsPrefix(<<"Node", "not", "found", ":">>, message) THEN "not found"
    ELSE IF IsPrefix(<<"Node", "already", "exists", ":">>, message) THEN "already exists"
    ELSE IF IsPrefix(<<"Cannot", "delete", "node", ":", "dependencies">>, message)
    THEN "dependencies"
    ELSE IF IsPrefix(<<"API", "error", ":">>, message) THEN "api"
    ELSE "generic"

\* first match in the order 'not found', 'already exists', 'dependencies', 'api'
FirstKnown(msg) ==
    IF Contains(msg, S_not_found) THEN "not found"
    ELSE IF Contains(msg, S_already_exists) THEN "already exists"
    ELSE IF Contains(msg, S_dependencies) THEN "dependencies"
    ELSE IF Contains(msg, S_api) THEN "api"
    ELSE "generic"

\* C22: when the thrown message contains more than one known substring the
\* typed failure reason is the first match in the order 'not found',
\* 'already exists', 'dependencies', 'api'; a message containing none falls
\* back to the generic failure.
C22_FirstMatchOrder ==
    reg_obs.outcome.kind = "raises" =>
        ReasonOf(reg_obs.result.message) = FirstKnown(lower(reg_obs.outcome.msg))

\* the update a scale or a restart must send, from what get_service answered
ExpectedUpdate(kind, read, scale_factor) ==
    IF kind = "scale" /\ read # NoResources
    THEN <<read[1] * scale_factor, read[2] * scale_factor>>
    ELSE read

\* C23: act 'scale' and act 'restart' first read the service with
\* get_service and only then issue exactly one update_service; scale sends
\* cpu and memory equal to the read values times scale_factor, restart sends
\* the read configuration unchanged; when get_service fails no update_service
\* is issued and act returns False.
C23_ReadThenOneUpdate ==
    (act_obs.agent = "service" /\ act_obs.has_id /\ act_obs.kind \in {"scale", "restart"}) =>
        IF act_obs.get_ok
        THEN /\ act_obs.calls = <<"get_service", "update_service">>
             /\ act_obs.sent = <<ExpectedUpdate(act_obs.kind, act_obs.read,
                                                act_obs.scale_factor)>>
        ELSE /\ act_obs.calls = <<"get_service">>
             /\ act_obs.sent = << >>
             /\ act_obs.ret = FALSE

\* a scale by 2 of a service read with cpu 1 and memory 512
C23_Witness ==
    /\ act_obs.agent = "service"
    /\ act_obs.kind = "scale"
    /\ act_obs.has_id
    /\ act_obs.get_ok
    /\ act_obs.scale_factor = 2
    /\ act_obs.read = <<1, 512>>
    /\ act_obs.sent = <<(<<2, 1024>>)>>
    /\ act_obs.ret = TRUE

AnyServiceCritical(metrics) ==
    \/ GetOver(metrics, "cpu_usage", svc_cpu_critical)
    \/ GetOver(metrics, "memory_usage", svc_memory_critical)
    \/ GetOver(metrics, "response_time", response_critical)
    \/ GetOver(metrics, "error_rate", error_critical)

\* C24: in the ServiceMetricsCollector analysis, if any of cpu_usage,
\* memory_usage, response_time or error_rate exceeds its critical threshold
\* the status is 'critical' and the health is 'poor', whatever the metrics
\* checked afterwards are.
C24_CriticalIsNeverDowngraded ==
    (cls_obs.kind = "service" /\ AnyServiceCritical(cls_obs.stats)) =>
        /\ cls_obs.status = "critical"
        /\ cls_obs.health = "poor"

\* C25: after any sequence of record_health_check calls, get_health_summary
\* reports 'unknown' if no check was recorded, else 'unhealthy' if any
\* recorded check is unhealthy, else 'degraded' if any is degraded, else
\* 'healthy'; total_checks equals the number of recorded checks and the sum
\* of the healthy, degraded and unhealthy counts, in every summary that
\* carries them: the summary of an empty history has neither 'counts' nor
\* 'total_checks'.
C25_HealthSummary ==
    monitor_obs.ev = "summary" =>
        /\ ~monitor_obs.raised
        /\ monitor_obs.status =
              (IF Len(monitor_history) = 0 THEN "unknown"
               ELSE IF \E i \in 1..Len(monitor_history) : monitor_history[i] = "unhealthy"
               THEN "unhealthy"
               ELSE IF \E i \in 1..Len(monitor_history) : monitor_history[i] = "degraded"
               THEN "degraded"
               ELSE "healthy")
        /\ monitor_obs.has_counts =>
              /\ monitor_obs.total_checks = Len(monitor_history)
              /\ monitor_obs.total_checks
                    = monitor_obs.healthy + monitor_obs.degraded + monitor_obs.unhealthy
        /\ monitor_obs.has_counts = (Len(monitor_history) > 0)

\* C25 as stated: every summary, the one of an empty history included,
\* carries total_checks equal to the number of recorded checks and to the sum
\* of the three counts.
C25_EverySummaryHasTotalChecks ==
    monitor_obs.ev = "summary" =>
        /\ monitor_obs.has_counts
        /\ monitor_obs.total_checks = Len(monitor_history)
        /\ monitor_obs.total_checks
              = monitor_obs.healthy + monitor_obs.degraded + monitor_obs.unhealthy

\* a summary over healthy, degraded, healthy
C25_Witness ==
    /\ monitor_obs.ev = "summary"
    /\ monitor_history = <<"healthy", "degraded", "healthy">>
    /\ monitor_obs.status = "degraded"
    /\ monitor_obs.total_checks = 3

\* C27: after any sequence of successful and failed response-time
\* measurements for a service, _calculate_error_rate returns a value between
\* 0 and 1 inclusive.
C27_ErrorRateInUnitInterval ==
    rate_obs.ev = "rate" =>
        /\ rate_obs.rate.den > 0
        /\ 0 <= rate_obs.rate.num
        /\ rate_obs.rate.num <= rate_obs.rate.den

Elevated(roles) == "admin" \in Range(roles) \/ "super_admin" \in Range(roles)

\* C26: create_user with roles containing 'admin' or 'super_admin' first
\* fetches the current user; it goes on to the POST only if the current user
\* holds super_admin; otherwise the call fails, no POST is sent (the server
\* applies no write) and the cache is left unchanged.
C26_ElevatedCreateNeedsSuperAdmin ==
    [][\A t \in Tasks :
        /\ (last'.ev = "write_start" /\ last'.op = "create_user" /\ Elevated(last'.roles)
              /\ task[t].pc = "idle" /\ task'[t].pc # "idle")
            => (task'[t].pc = "me" /\ srv' = srv /\ nwrites' = nwrites)
        /\ (task[t].pc = "me" /\ task'[t] # task[t])
            => /\ last'.ev \in {"me_ok", "write_denied"}
               /\ last'.op = "create_user"
               /\ srv' = srv /\ nwrites' = nwrites /\ cache' = cache
               /\ IF "super_admin" \in Range(last'.me)
                  THEN last'.ev = "me_ok" /\ task'[t].pc = "send"
                  ELSE last'.ev = "write_denied" /\ task'[t] = Idle
        /\ (task[t].pc # "send" /\ task'[t].pc = "send" /\ last'.op = "create_user")
            => \/ last'.ev = "write_start" /\ ~Elevated(last'.roles)
               \/ last'.ev = "me_ok" /\ "super_admin" \in Range(last'.me)
    ]_vars

\* a create_user with an elevated role was refused because the current user
\* is an admin, with something in the cache
C26_Witness ==
    /\ last.ev = "write_denied"
    /\ last.op = "create_user"
    /\ last.me = <<"admin">>
    /\ DOMAIN cache # {}
    /\ nwrites = 0

\* the steps of a write that has not succeeded: its start, a validation
\* error, the permission check, the request, and the raise
UnfinishedWriteSteps ==
    {"write_start", "write_invalid", "me_ok", "write_denied", "applied", "write_fail"}

\* C28: a mutating write that fails, by validation error or because the
\* external call raises, leaves the cache exactly as it was before the call:
\* no key is removed, added or changed.  (No step of a write touches the
\* cache except its successful return.)
C28_FailedWriteKeepsCache ==
    [][(last'.ev \in UnfinishedWriteSteps /\ last'.op \in WriteOps) => cache' = cache]_vars

\* an update_user whose request raised, with that organization's user list cached
C28_Witness ==
    /\ last.ev = "write_fail"
    /\ last.op = "update_user"
    /\ UsersKey(last.org) \in DOMAIN cache

\* C29: whenever a non-expired cache entry exists for the key (a hit is
\* recorded), the cached read returns the cached payload without calling the
\* external API, for every payload that was stored, including an empty list.
C29_HitReturnsCachedPayload ==
    [][hits' > hits =>
          /\ last'.ev = "read_cached"
          /\ last'.ret = last'.cached
          /\ task' = task]_vars

\* C30: update_user(org, u) and delete_user(org, u) remove from the cache
\* only the entries of that user and of that organization's user list; the
\* entry of every other user and of every other organization is unchanged.
C30_UserWriteRemovesOnlyItsKeys ==
    [][(last'.ev = "write_ok" /\ last'.op \in {"update_user", "delete_user"}) =>
          \A k \in DOMAIN cache :
              k \notin {UsersKey(last'.org), UserKey(last'.org, last'.user)}
                  => (k \in DOMAIN cache' /\ cache'[k] = cache[k])]_vars

====
